---- MODULE Spec2Model ----
(***************************************************************************)
(* The shopping-list page of the meal planner (ShoppingListPage) and the   *)
(* back-up export page (ExportContent), as a state machine.                *)
(*                                                                         *)
(* The state is the React state of one mounted ShoppingListPage and of one *)
(* ExportContent (the back-up page, opened from the list's link), the      *)
(* browser's localStorage, the store's recipes and mealPlan, and the       *)
(* publish calls in flight.  One action is one event: the handler, the     *)
(* render it causes and the effects of that render (load effect, persist   *)
(* effect) run to quiescence, as React does for a click.                   *)
(***************************************************************************)
EXTENDS Integers, FiniteSets, Sequences, TLC

\* ------------------------------------------------------------------ bounds
\* Number of distinct normalized ingredient keys a recipe may list.
MaxKey == 2

Keys == 1..MaxKey
RecipeIds == {"r1", "r2"}
\* The recipe whose ingredient list is edited while the model runs.
EditedRecipes == {"r1"}
\* Mondays of the weeks the user can navigate to (day numbers).
WeekStarts == {0, 7}
\* The entries the planner holds: Monday and Sunday of the first week, Monday
\* of the second, and a Tuesday entry whose recipe is not in the catalog.
PlanEntries ==
    { [date |-> 0, mealType |-> "dinner", recipeId |-> "r1"],
      [date |-> 6, mealType |-> "lunch", recipeId |-> "r2"],
      [date |-> 7, mealType |-> "dinner", recipeId |-> "r2"],
      [date |-> 1, mealType |-> "dinner", recipeId |-> "gone"] }
\* The ingredient lists the edited recipe goes through: its first n keys.
EditedLists == { 1..n : n \in 0..MaxKey }

VARIABLES
    mode,                     \* "firebase" | "local"
    tzOffset,                 \* the browser's local time minus UTC, in hours
    recipes,                  \* store: recipe id -> its normalized ingredient keys
    mealPlan,                 \* store: set of entries
    storage,                  \* window.localStorage: storage key -> raw value
    mounted,                  \* the effects of the list page's first render have run
    startDate,                \* ShoppingListPage state
    notToBringMealIds,
    notToBringIngredientIds,
    bringPreferencesLoaded,
    busy,
    error,
    inflight,                 \* publish calls of handleSendToBring not yet settled
    exportStart,              \* ExportContent: the start parameter
    exportBusy,
    exportError,
    exportInflight,           \* publish calls of handleGenerateLink not yet settled
    setsKey,                  \* history: the storage key the in-memory sets were built for
    last,                     \* history: the event that produced this state
    fsRecipes,                \* Firestore: ids of the household's recipe documents
    fsMealPlan,               \* Firestore: the household's mealPlan documents
    fsNextId,                 \* createId(): the next fresh document id
    fsCalls,                  \* per client: the data-source call it is in
    now,                      \* the time of the servers' clocks
    bringShares,              \* Firestore: the bringShares documents
    shareRead,                \* the result of the last fetchShareSnapshot
    documents,                \* the household's documents as the data source reads them
    view,                     \* what the list page computed from the documents
    quantity,                 \* the last toHumanQuantity call and its result
    household,                \* StoreProvider state: the active household's id
    collections,              \* the data sources' recipes and mealPlan collections
    householdCache,           \* window.localStorage: the cache entry of each household
    loads,                    \* loadHouseholdData promises not yet settled
    watch,                    \* the onSnapshot listeners of watchHouseholdData
    writes,                   \* history: the number of mutations resolved
    applied                   \* history: the household of the snapshot applied last

vars == << mode, tzOffset, recipes, mealPlan, storage, mounted, startDate,
           notToBringMealIds, notToBringIngredientIds, bringPreferencesLoaded,
           busy, error, inflight, exportStart, exportBusy, exportError,
           exportInflight, setsKey, last, fsRecipes, fsMealPlan, fsNextId,
           fsCalls, now, bringShares, shareRead, documents,
           view, quantity, household, collections, householdCache, loads,
           watch, writes, applied >>

listVars == << mounted, startDate, notToBringMealIds, notToBringIngredientIds,
               bringPreferencesLoaded, busy, error, inflight, setsKey >>
exportVars == << exportStart, exportBusy, exportError, exportInflight >>
shareVars == << now, bringShares, shareRead >>
backendVars == << fsRecipes, fsMealPlan, fsNextId, fsCalls, shareVars >>
providerVars == << household, collections, householdCache, loads, watch,
                  writes, applied >>
calcVars == << documents, view, quantity, providerVars >>
storeVars == << mode, tzOffset, calcVars, recipes, mealPlan, backendVars >>

\* ------------------------------------------------------------- identities
getMealGroupId(entry) == << entry.date, entry.mealType, entry.recipeId >>

getMealIngredientId(groupId, normalizedKey) ==
    << groupId[1], groupId[2], groupId[3], normalizedKey >>

householdKey == "local"

buildBringPreferenceStorageKey(householdId, weekStartKey) ==
    << householdId, weekStartKey >>

bringPreferenceStorageKey(start) ==
    buildBringPreferenceStorageKey(householdKey, start)

StorageKeys == { bringPreferenceStorageKey(w) : w \in WeekStarts }

\* ------------------------------------------------------------- aggregation
\* Dates are instants counted in hours of the browser's local wall clock; a
\* calendar day, as in an entry's yyyy-MM-dd string or a week's Monday, is a day
\* number.  startOfWeek gives local midnight of the Monday.
startOfDay(day) == day * 24

\* new Date("yyyy-MM-dd"): midnight UTC of that day, which on the local wall
\* clock is tzOffset hours after local midnight.
newDate(dateString) == dateString * 24 + tzOffset

\* endOfWeek(start, { weekStartsOn: 1 }): the last instant of the Sunday.
endOfWeek(start) == start + 7 * 24 - 1

isWithinInterval(d, start, end) == start <= d /\ d <= end

\* mealGroups without the recipe test: an entry without a recipe gets a group
\* without ingredients.
mealGroups_KeepsUnknown(plan, recs, start) ==
    { [ id |-> getMealGroupId(e),
        ingredients |->
            IF e.recipeId \in DOMAIN recs
            THEN { getMealIngredientId(getMealGroupId(e), k) : k \in recs[e.recipeId] }
            ELSE {} ] :
      e \in { x \in plan :
                isWithinInterval(newDate(x.date), startOfDay(start),
                                 endOfWeek(startOfDay(start))) } }

\* The meal groups of the week starting at start: one per in-window entry whose
\* recipe exists, with one ingredient per normalized key of the recipe.
mealGroups(plan, recs, start) ==
    { [ id |-> getMealGroupId(e),
        ingredients |->
            { getMealIngredientId(getMealGroupId(e), k) : k \in recs[e.recipeId] } ] :
      e \in { x \in plan :
                /\ isWithinInterval(newDate(x.date), startOfDay(start),
                                    endOfWeek(startOfDay(start)))
                /\ x.recipeId \in DOMAIN recs } }

ingredientNotToBring(mealIds, ingredientIds, group, ingredient) ==
    group.id \in mealIds \/ ingredient \in ingredientIds

\* mealStats.get(group.id).allNotToBring
allNotToBring(mealIds, ingredientIds, group) ==
    /\ Cardinality(group.ingredients) > 0
    /\ \A i \in group.ingredients :
          ingredientNotToBring(mealIds, ingredientIds, group, i)

\* The normalized keys of bringItems: the ingredients that are not excluded,
\* merged by normalized key over all groups.
bringItems(groups, mealIds, ingredientIds) ==
    { i[4] : i \in { x \in UNION { g.ingredients : g \in groups } :
                      \E g \in groups :
                          /\ x \in g.ingredients
                          /\ ~ingredientNotToBring(mealIds, ingredientIds, g, x) } }

\* ---------------------------------------------------------------- storage
\* A raw localStorage value.  kind "null": getItem returns null; "garbage": a
\* string JSON.parse does not turn into an object with readable fields; "json":
\* an object whose four id fields are each an array or anything else.
Arr(items) == [isArray |-> TRUE, items |-> items]
NotArray == [isArray |-> FALSE, items |-> {}]

\* An array element that is not a string.
NotAString == << "number" >>
isString(value) == value # NotAString

Item(kind, nm, ni, dm, di) ==
    [ kind |-> kind, notToBringMealIds |-> nm, notToBringIngredientIds |-> ni,
      discardedMealIds |-> dm, discardedIngredientIds |-> di ]

NullItem == Item("null", NotArray, NotArray, NotArray, NotArray)
GarbageItem == Item("garbage", NotArray, NotArray, NotArray, NotArray)

\* A record written by the earlier version of the page: only the discarded*
\* fields, here with the first ingredient of the week's meals of an edited
\* recipe (one ingredient of several) and a stray non-string element.
LegacyItem(start) ==
    Item("json", NotArray, NotArray, Arr({}),
         Arr({ getMealIngredientId(getMealGroupId(e), 1) :
                   e \in { x \in PlanEntries : /\ x.recipeId \in EditedRecipes
                                                /\ x.date \in start..(start + 6) } }
             \cup {NotAString}))

\* BringPreferenceStoragePayload as the persist effect and markWeekAsNotToBring
\* build it (collapsedMealIds left out).
storagePayload(mealIds, ingredientIds) ==
    Item("json", Arr(mealIds), Arr(ingredientIds), Arr(mealIds), Arr(ingredientIds))

\* A filter that keeps every element.
filterStrings_KeepAll(array) == array.items

filterStrings(array) == { v \in array.items : isString(v) }

\* The two sets the load effect puts into the state for a raw value.
parseMealIds(raw) ==
    IF raw.kind # "json" THEN {}
    ELSE IF raw.notToBringMealIds.isArray THEN filterStrings(raw.notToBringMealIds)
    ELSE IF raw.discardedMealIds.isArray THEN filterStrings(raw.discardedMealIds)
    ELSE {}

parseIngredientIds(raw) ==
    IF raw.kind # "json" THEN {}
    ELSE IF raw.notToBringIngredientIds.isArray
         THEN filterStrings(raw.notToBringIngredientIds)
    ELSE IF raw.discardedIngredientIds.isArray
         THEN filterStrings(raw.discardedIngredientIds)
    ELSE {}

\* A persist effect that writes the meal ids and leaves the ingredient ids out.
persistEffect_MealIdsOnly(st, key, loaded, mealIds, ingredientIds) ==
    IF ~loaded THEN st
    ELSE [st EXCEPT ![key] = storagePayload(mealIds, {})]

\* The persist effect, run for a render whose state is (loaded, mealIds,
\* ingredientIds) and whose storage key is key.
persistEffect(st, key, loaded, mealIds, ingredientIds) ==
    IF ~loaded THEN st
    ELSE [st EXCEPT ![key] = storagePayload(mealIds, ingredientIds)]

\* The effects of a new key without the render that persists the loaded sets:
\* the sets of the previous key stay under the new key.
storageAfterKeyChange_NoSecondPass(st, key, loaded, mealIds, ingredientIds) ==
    persistEffect(st, key, loaded, mealIds, ingredientIds)

\* The effects of a render whose storage key is new (mount, week change), run to
\* quiescence.  The load effect reads the item and sets the state; the persist
\* effect of the same pass still sees the state of the render (loaded,
\* mealIds, ingredientIds); the render that follows persists the loaded sets.
storageAfterKeyChange(st, key, loaded, mealIds, ingredientIds) ==
    LET raw == st[key]
        pass1 == persistEffect(st, key, loaded, mealIds, ingredientIds)
    IN  persistEffect(pass1, key, TRUE, parseMealIds(raw), parseIngredientIds(raw))

\* What localStorage may hold when the page is first opened: nothing, values
\* that do not parse, or records of the earlier version.
InitialStorages ==
    { [k \in StorageKeys |-> NullItem],
      [k \in StorageKeys |-> GarbageItem],
      [k \in StorageKeys |-> LegacyItem(k[2])] }

\* ----------------------------------------------------------------- backend
\* The household's Firestore collections as the clients' FirebaseDataSource
\* calls find them: both recipes there, nothing planned, no call under way.
Clients == {"a", "b"}
Idle == [op |-> "idle"]

NoRead == [token |-> 0, at |-> 0, found |-> FALSE]

\* Nothing read, rendered or rounded yet.
NoDocs == [recipes |-> << >>, mealPlan |-> << >>]
NoView == [rendered |-> FALSE]
NoQuantity == [called |-> FALSE]

\* The provider before any household is set: nothing stored, cached or pending.
Households == {"h1", "h2"}
NoHousehold == "none"
CollectionKeys == Households \cup {"localStorage"}
NoData == [recipes |-> [r \in {} |-> {}], mealPlan |-> {}]
NoCache == [cached |-> FALSE]
NoWatch == [listening |-> FALSE]

ProviderInit ==
    /\ household = NoHousehold
    /\ collections = [k \in CollectionKeys |-> NoData]
    /\ householdCache = [h \in Households |-> NoCache]
    /\ loads = {}
    /\ watch = NoWatch
    /\ writes = 0
    /\ applied = NoHousehold

BackendInit ==
    /\ fsRecipes = RecipeIds
    /\ fsMealPlan = {}
    /\ fsNextId = 1
    /\ fsCalls = [cl \in Clients |-> Idle]
    /\ now = 1
    /\ bringShares = {}
    /\ shareRead = NoRead
    /\ documents = NoDocs
    /\ view = NoView
    /\ quantity = NoQuantity
    /\ ProviderInit

\* ------------------------------------------------------------------- state
\* startOfWeek(new Date()): the Monday of the week the model runs in.
Today == 0

\* The time zone the application is written for ("nl-NL"): one hour east of UTC.
HomeOffset == 1

NoError == "none"

currentGroups == mealGroups(mealPlan, recipes, startDate)
currentKey == bringPreferenceStorageKey(startDate)
currentBringItems ==
    bringItems(currentGroups, notToBringMealIds, notToBringIngredientIds)

Init ==
    /\ mode \in {"firebase", "local"}
    /\ tzOffset = HomeOffset
    /\ recipes = [r \in RecipeIds |-> IF r \in EditedRecipes THEN Keys ELSE {1}]
    /\ mealPlan = PlanEntries
    /\ storage \in InitialStorages
    /\ mounted = FALSE
    /\ startDate = Today
    /\ notToBringMealIds = {}
    /\ notToBringIngredientIds = {}
    /\ bringPreferencesLoaded = FALSE
    /\ busy = FALSE
    /\ error = NoError
    /\ inflight = {}
    /\ exportStart = Today
    /\ exportBusy = FALSE
    /\ exportError = NoError
    /\ exportInflight = {}
    /\ setsKey = bringPreferenceStorageKey(Today)
    /\ last = "init"
    /\ BackendInit

\* ------------------------------------------------------ ShoppingListPage
\* The effects of the first render of the list page.
MountEffects ==
    /\ ~mounted
    /\ mounted' = TRUE
    /\ notToBringMealIds' = parseMealIds(storage[currentKey])
    /\ notToBringIngredientIds' = parseIngredientIds(storage[currentKey])
    /\ bringPreferencesLoaded' = TRUE
    /\ storage' = storageAfterKeyChange(storage, currentKey, bringPreferencesLoaded,
                                        notToBringMealIds, notToBringIngredientIds)
    /\ setsKey' = currentKey
    /\ last' = "mount"
    /\ UNCHANGED << storeVars, startDate, busy, error, inflight, exportVars >>

\* toggleMealIds without the removal of the meal id.
toggleMealIds_NoRemove(mealIds, ingredientIds, group) ==
    mealIds \cup {group.id}

\* toggleMealIngredientIds with a removal that clears every ingredient id.
toggleMealIngredientIds_ClearAll(mealIds, ingredientIds, group) ==
    IF allNotToBring(mealIds, ingredientIds, group)
    THEN {}
    ELSE ingredientIds \cup group.ingredients

\* The sets toggleMealBringInclusion computes.
toggleMealIds(mealIds, ingredientIds, group) ==
    IF allNotToBring(mealIds, ingredientIds, group)
    THEN mealIds \ {group.id}
    ELSE mealIds \cup {group.id}

toggleMealIngredientIds(mealIds, ingredientIds, group) ==
    IF allNotToBring(mealIds, ingredientIds, group)
    THEN ingredientIds \ group.ingredients
    ELSE ingredientIds \cup group.ingredients

toggleMealBringInclusion(group) ==
    /\ mounted
    /\ group \in currentGroups
    /\ notToBringMealIds' =
          toggleMealIds(notToBringMealIds, notToBringIngredientIds, group)
    /\ notToBringIngredientIds' =
          toggleMealIngredientIds(notToBringMealIds, notToBringIngredientIds, group)
    /\ error' = NoError
    /\ storage' = persistEffect(storage, currentKey, bringPreferencesLoaded,
                                notToBringMealIds', notToBringIngredientIds')
    /\ last' = "toggleMeal"
    /\ UNCHANGED << storeVars, mounted, startDate, bringPreferencesLoaded, busy,
                    inflight, setsKey, exportVars >>

\* The sets toggleIngredientBringInclusion computes.
toggleIngredientIds(ingredientIds, ingredient) ==
    IF ingredient \in ingredientIds
    THEN ingredientIds \ {ingredient}
    ELSE ingredientIds \cup {ingredient}

\* toggleIngredientMealIds without the removal of the meal id.
toggleIngredientMealIds_NoRemove(mealIds, nextIngredientIds, group) ==
    IF \A item \in group.ingredients : item \in nextIngredientIds
    THEN mealIds \cup {group.id}
    ELSE mealIds

toggleIngredientMealIds(mealIds, nextIngredientIds, group) ==
    IF \A item \in group.ingredients : item \in nextIngredientIds
    THEN mealIds \cup {group.id}
    ELSE mealIds \ {group.id}

toggleIngredientBringInclusion(group, ingredient) ==
    /\ mounted
    /\ group \in currentGroups
    /\ ingredient \in group.ingredients
    /\ notToBringIngredientIds' = toggleIngredientIds(notToBringIngredientIds, ingredient)
    /\ notToBringMealIds' =
          toggleIngredientMealIds(notToBringMealIds, notToBringIngredientIds', group)
    /\ error' = NoError
    /\ storage' = persistEffect(storage, currentKey, bringPreferencesLoaded,
                                notToBringMealIds', notToBringIngredientIds')
    /\ last' = "toggleIngredient"
    /\ UNCHANGED << storeVars, mounted, startDate, bringPreferencesLoaded, busy,
                    inflight, setsKey, exportVars >>

\* removeItem as resetBringPreferencesForWeek calls it.
removeItem(st, key) == [st EXCEPT ![key] = NullItem]

\* The reset button: the handler clears the sets and removes the item; the
\* render that follows has new (empty) sets, so its persist effect runs.
resetBringPreferencesForWeek ==
    /\ mounted
    /\ currentGroups # {}
    /\ notToBringMealIds' = {}
    /\ notToBringIngredientIds' = {}
    /\ error' = NoError
    /\ storage' = persistEffect(removeItem(storage, currentKey), currentKey,
                                bringPreferencesLoaded, {}, {})
    /\ setsKey' = currentKey
    /\ last' = "reset"
    /\ UNCHANGED << storeVars, mounted, startDate, bringPreferencesLoaded, busy,
                    inflight, exportVars >>

\* nextWeek / prevWeek: the new start date changes the storage key, so the load
\* effect and the persist effect both run.
setStartDate(newStart) ==
    /\ mounted
    /\ newStart \in WeekStarts
    /\ startDate' = newStart
    /\ notToBringMealIds' = parseMealIds(storage[bringPreferenceStorageKey(newStart)])
    /\ notToBringIngredientIds' =
          parseIngredientIds(storage[bringPreferenceStorageKey(newStart)])
    /\ bringPreferencesLoaded' = TRUE
    /\ storage' = storageAfterKeyChange(storage, bringPreferenceStorageKey(newStart),
                                        bringPreferencesLoaded, notToBringMealIds,
                                        notToBringIngredientIds)
    /\ setsKey' = bringPreferenceStorageKey(newStart)
    /\ UNCHANGED << storeVars, mounted, busy, error, inflight, exportVars >>

nextWeek ==
    /\ setStartDate(startDate + 7)
    /\ last' = "nextWeek"

prevWeek ==
    /\ setStartDate(startDate - 7)
    /\ last' = "prevWeek"

\* markWeekAsNotToBring(sourceGroups), called from a render whose sets were
\* (mealIds, ingredientIds): the sets it puts into the state and into storage.
markedMealIds(mealIds, sourceGroups) ==
    mealIds \cup { g.id : g \in sourceGroups }

\* markWeekAsNotToBring without the ingredient ids of the groups.
markedIngredientIds_None(ingredientIds, sourceGroups) ==
    ingredientIds

markedIngredientIds(ingredientIds, sourceGroups) ==
    ingredientIds \cup UNION { g.ingredients : g \in sourceGroups }

\* What the closure of handleSendToBring holds of the render it was called
\* from: the storage key, the groups, the payload it hands to
\* createBringShareSnapshot, and the sets of that render, kept as the sets
\* markWeekAsNotToBring(mealGroups) computes from them once the call resolves.
sendClosure ==
    [ key |-> currentKey,
      groups |-> currentGroups,
      items |-> currentBringItems,
      mealIds |-> markedMealIds(notToBringMealIds, currentGroups),
      ingredientIds |-> markedIngredientIds(notToBringIngredientIds, currentGroups) ]

ErrEmpty == "Er zijn geen ingredienten ingesteld op 'Naar Bring'."
ErrPublish == "Versturen naar Bring mislukt."

sendDisabled == busy \/ mode # "firebase" \/ ~bringPreferencesLoaded

\* handleSendToBring up to its await: with nothing to bring it fails without a
\* publish call, otherwise createBringShareSnapshot is called with bringItems.
handleSendToBring ==
    /\ mounted
    /\ currentGroups # {}
    /\ ~sendDisabled
    /\ mode = "firebase"
    /\ IF currentBringItems = {}
       THEN /\ error' = ErrEmpty
            /\ UNCHANGED << busy, inflight >>
       ELSE /\ error' = NoError
            /\ busy' = TRUE
            /\ inflight' = inflight \cup {sendClosure}
    /\ last' = "send"
    /\ UNCHANGED << storeVars, storage, mounted, startDate, notToBringMealIds,
                    notToBringIngredientIds, bringPreferencesLoaded, setsKey,
                    exportVars >>

\* The publish call of closure c resolves: markWeekAsNotToBring(mealGroups) of
\* the render the handler was called from, then setBusy(false).  The storage
\* write goes to the closure's key; the render that follows runs the persist
\* effect under the key of that render.
sendResolved(c) ==
    /\ c \in inflight
    /\ inflight' = inflight \ {c}
    /\ notToBringMealIds' = c.mealIds
    /\ notToBringIngredientIds' = c.ingredientIds
    /\ busy' = FALSE
    /\ storage' = persistEffect(
                      [storage EXCEPT ![c.key] = storagePayload(c.mealIds, c.ingredientIds)],
                      currentKey, bringPreferencesLoaded, c.mealIds, c.ingredientIds)
    /\ setsKey' = c.key
    /\ last' = "sendResolved"
    /\ UNCHANGED << storeVars, mounted, startDate, bringPreferencesLoaded, error,
                    exportVars >>

\* A rejection that marks the week as a resolved call does.
sendRejected_Marks(c) ==
    /\ c \in inflight
    /\ inflight' = inflight \ {c}
    /\ notToBringMealIds' = c.mealIds
    /\ notToBringIngredientIds' = c.ingredientIds
    /\ error' = ErrPublish
    /\ busy' = FALSE
    /\ storage' = persistEffect(
                      [storage EXCEPT ![c.key] = storagePayload(c.mealIds, c.ingredientIds)],
                      currentKey, bringPreferencesLoaded, c.mealIds, c.ingredientIds)
    /\ setsKey' = c.key
    /\ last' = "sendRejected"
    /\ UNCHANGED << storeVars, mounted, startDate, bringPreferencesLoaded,
                    exportVars >>

\* The publish call of closure c rejects.
sendRejected(c) ==
    /\ c \in inflight
    /\ inflight' = inflight \ {c}
    /\ error' = ErrPublish
    /\ busy' = FALSE
    /\ last' = "sendRejected"
    /\ UNCHANGED << storeVars, storage, mounted, startDate, notToBringMealIds,
                    notToBringIngredientIds, bringPreferencesLoaded, setsKey,
                    exportVars >>

\* ----------------------------------------------------------- ExportContent
\* The link "Open back-up exportpagina" of the list: a new ExportContent is
\* mounted with the list's start date as its start parameter and its own
\* useState values.  A publish call an earlier ExportContent started stays
\* pending; its component is gone (live = FALSE), so its setState calls will
\* have no effect.
openExportPage ==
    /\ mounted
    /\ currentGroups # {}
    /\ exportStart' = startDate
    /\ exportBusy' = FALSE
    /\ exportError' = NoError
    /\ exportInflight' = { [c EXCEPT !.live = FALSE] : c \in exportInflight }
    /\ last' = "openExport"
    /\ UNCHANGED << storeVars, storage, listVars >>

\* shoppingList of the export page: every ingredient of every in-window entry
\* with a recipe, merged by key; the exclusion sets are not read.
shoppingList(plan, recs, start) ==
    UNION { recs[e.recipeId] :
            e \in { x \in plan :
                      /\ isWithinInterval(newDate(x.date), startOfDay(start),
                                          endOfWeek(startOfDay(start)))
                      /\ x.recipeId \in DOMAIN recs } }

ErrNothingToShare == "Er zijn geen boodschappen om te delen."
ErrGenerate == "Link genereren mislukt."

\* A generate button that is disabled only while busy.
generateDisabled_BusyOnly == exportBusy

generateDisabled == exportBusy \/ mode # "firebase"

handleGenerateLink ==
    /\ ~generateDisabled
    /\ LET items == shoppingList(mealPlan, recipes, exportStart)
       IN  IF items = {}
           THEN /\ exportError' = ErrNothingToShare
                /\ UNCHANGED << exportBusy, exportInflight >>
           ELSE /\ exportError' = NoError
                /\ exportBusy' = TRUE
                /\ exportInflight' =
                      exportInflight \cup {[start |-> exportStart, items |-> items,
                                              live |-> TRUE]}
    /\ last' = "generateLink"
    /\ UNCHANGED << storeVars, storage, listVars, exportStart >>

\* The publish call of the export page settles; ok tells whether it resolved.
generateSettled(c, ok) ==
    /\ c \in exportInflight
    /\ exportInflight' = exportInflight \ {c}
    /\ exportBusy' = IF c.live THEN FALSE ELSE exportBusy
    /\ exportError' = IF c.live /\ ~ok THEN ErrGenerate ELSE exportError
    /\ last' = IF ok THEN "generateResolved" ELSE "generateRejected"
    /\ UNCHANGED << storeVars, storage, listVars, exportStart >>

\* -------------------------------------------------------------------- store
\* The store delivers a snapshot with another ingredient list for recipe r.
updateRecipe(r, keys) ==
    /\ r \in DOMAIN recipes
    /\ recipes[r] # keys
    /\ recipes' = [recipes EXCEPT ![r] = keys]
    /\ last' = "updateRecipe"
    /\ UNCHANGED << mode, tzOffset, calcVars, mealPlan, backendVars, storage, listVars, exportVars >>

\* ------------------------------------------------------ FirebaseDataSource
\* Each call is a getDocs query followed by a batch commit; other clients'
\* steps may come between the two.
MaxDocs == 3
Drafts == [date : {0}, mealType : {"dinner", "lunch"}, recipeId : RecipeIds]

listVarsAndPages == << storage, listVars, exportVars, last, shareVars >>

\* deleteRecipe up to its await: the entries that reference the recipe now.
deleteRecipeQuery(cl, recipeId) ==
    /\ fsCalls[cl] = Idle
    /\ recipeId \in fsRecipes
    /\ fsCalls' = [fsCalls EXCEPT ![cl] =
                     [op |-> "deleteRecipe", recipeId |-> recipeId,
                      refs |-> { d.id : d \in { x \in fsMealPlan :
                                                  x.recipeId = recipeId } }]]
    /\ UNCHANGED << mode, tzOffset, calcVars, recipes, mealPlan, fsRecipes, fsMealPlan, fsNextId,
                    listVarsAndPages >>

\* batch.commit() of deleteRecipe: the recipe document and the entries found.
deleteRecipeCommit(cl) ==
    /\ fsCalls[cl].op = "deleteRecipe"
    /\ fsRecipes' = fsRecipes \ {fsCalls[cl].recipeId}
    /\ fsMealPlan' = { d \in fsMealPlan : d.id \notin fsCalls[cl].refs }
    /\ fsCalls' = [fsCalls EXCEPT ![cl] = Idle]
    /\ UNCHANGED << mode, tzOffset, calcVars, recipes, mealPlan, fsNextId, listVarsAndPages >>

\* upsertMealPlanEntry up to its await: the entries in the draft's slot now.
upsertMealPlanEntryQuery(cl, draft) ==
    /\ fsCalls[cl] = Idle
    /\ draft.recipeId \in fsRecipes
    /\ fsNextId <= MaxDocs
    /\ fsCalls' = [fsCalls EXCEPT ![cl] =
                     [op |-> "upsertMealPlanEntry", draft |-> draft,
                      refs |-> { d.id : d \in { x \in fsMealPlan :
                                                  /\ x.date = draft.date
                                                  /\ x.mealType = draft.mealType } }]]
    /\ UNCHANGED << mode, tzOffset, calcVars, recipes, mealPlan, fsRecipes, fsMealPlan, fsNextId,
                    listVarsAndPages >>

\* batch.commit() of upsertMealPlanEntry: the entries found are deleted and a
\* document with a fresh id is set.
upsertMealPlanEntryCommit(cl) ==
    /\ fsCalls[cl].op = "upsertMealPlanEntry"
    /\ fsMealPlan' =
          { d \in fsMealPlan : d.id \notin fsCalls[cl].refs }
              \cup {[id |-> fsNextId,
                      date |-> fsCalls[cl].draft.date,
                      mealType |-> fsCalls[cl].draft.mealType,
                      recipeId |-> fsCalls[cl].draft.recipeId]}
    /\ fsNextId' = fsNextId + 1
    /\ fsCalls' = [fsCalls EXCEPT ![cl] = Idle]
    /\ UNCHANGED << mode, tzOffset, calcVars, recipes, mealPlan, fsRecipes, listVarsAndPages >>

\* removeMealPlanEntry up to its await, for an entry the client sees.
removeMealPlanEntryQuery(cl, entry) ==
    /\ fsCalls[cl] = Idle
    /\ entry \in fsMealPlan
    /\ fsCalls' = [fsCalls EXCEPT ![cl] =
                     [op |-> "removeMealPlanEntry",
                      refs |-> { d.id : d \in { x \in fsMealPlan :
                                                  /\ x.date = entry.date
                                                  /\ x.recipeId = entry.recipeId
                                                  /\ x.mealType = entry.mealType } }]]
    /\ UNCHANGED << mode, tzOffset, calcVars, recipes, mealPlan, fsRecipes, fsMealPlan, fsNextId,
                    listVarsAndPages >>

removeMealPlanEntryCommit(cl) ==
    /\ fsCalls[cl].op = "removeMealPlanEntry"
    /\ fsMealPlan' = { d \in fsMealPlan : d.id \notin fsCalls[cl].refs }
    /\ fsCalls' = [fsCalls EXCEPT ![cl] = Idle]
    /\ UNCHANGED << mode, tzOffset, calcVars, recipes, mealPlan, fsRecipes, fsNextId,
                    listVarsAndPages >>

\* ---------------------------------------------------------- share snapshots
\* Times are counted in units of 12 hours.  serverTimestamp() and the Date.now()
\* of the page that reads a token follow the servers' clock; the Date.now() of
\* the browser that creates a snapshot may be off by a skew.
MaxTime == 6
MaxShares == 2
DayMillis == 2
ClockSkews == {-1, 0, 1}
Tokens == 1..MaxShares

dataAndPages == << mode, tzOffset, calcVars, recipes, mealPlan, fsRecipes, fsMealPlan, fsNextId,
                   fsCalls, storage, listVars, exportVars, last >>

\* The time moves on.
Tick ==
    /\ now < MaxTime
    /\ now' = now + 1
    /\ UNCHANGED << bringShares, shareRead, dataAndPages >>

\* FirebaseDataSource.createBringShareSnapshot in a browser whose clock is off
\* by skew: expiresAt from Date.now(), createdAt from serverTimestamp().
createBringShareSnapshot(token, skew) ==
    /\ token \in Tokens
    /\ \A d \in bringShares : d.token # token
    /\ now + skew >= 0
    /\ bringShares' = bringShares \cup
                         {[token |-> token,
                           createdAt |-> now,
                           expiresAt |-> (now + skew) + DayMillis]}
    /\ UNCHANGED << now, shareRead, dataAndPages >>

\* A read that still returns the snapshot at the very time of expiry.
snapshotFound_AtExpiry(docs, token, at) ==
    \E d \in docs : /\ d.token = token
                     /\ d.expiresAt # 0
                     /\ ~(d.expiresAt < at)

\* What fetchShareSnapshot returns for a token at the time at: null (FALSE)
\* for a 404, a missing expiresAt or one that is not in the future.
snapshotFound(docs, token, at) ==
    \E d \in docs : /\ d.token = token
                     /\ d.expiresAt # 0
                     /\ ~(d.expiresAt <= at)

fetchShareSnapshot(token) ==
    /\ token \in Tokens
    /\ shareRead' = [token |-> token, at |-> now,
                     found |-> snapshotFound(bringShares, token, now)]
    /\ UNCHANGED << now, bringShares, dataAndPages >>

\* ------------------------------------------------------------------ numbers
\* A JavaScript number as far as the pages compute with it: a finite rational
\* n/d in lowest terms (d > 0), Infinity, -Infinity or NaN.  NotANumber is a
\* value whose typeof is not "number" (a missing field, a string, null).
RECURSIVE gcd(_, _)
gcd(a, b) == IF b = 0 THEN a ELSE gcd(b, a % b)

abs(n) == IF n < 0 THEN 0 - n ELSE n

Num(n, d) ==
    LET g == gcd(abs(n), d)
    IN  [kind |-> "num", n |-> n \div g, d |-> d \div g]

Infinity == [kind |-> "inf", n |-> 0, d |-> 1]
NegativeInfinity == [kind |-> "-inf", n |-> 0, d |-> 1]
NaN == [kind |-> "nan", n |-> 0, d |-> 1]
NotANumber == [kind |-> "none", n |-> 0, d |-> 1]

isNumber(value) == value.kind # "none"
isFinite(value) == value.kind = "num"
isPositive(value) == value.kind = "inf" \/ (value.kind = "num" /\ value.n > 0)

\* a < b, a <= b for finite a and b.
less(a, b) == a.n * b.d < b.n * a.d
lessOrEqual(a, b) == a.n * b.d <= b.n * a.d

\* a + b where neither is -Infinity.
plus(a, b) ==
    IF a.kind = "nan" \/ b.kind = "nan" THEN NaN
    ELSE IF a.kind = "inf" \/ b.kind = "inf" THEN Infinity
    ELSE Num(a.n * b.d + b.n * a.d, a.d * b.d)

minus(a, b) == Num(a.n * b.d - b.n * a.d, a.d * b.d)

\* a * b for a finite a > 0 and b >= 0.
times(a, b) ==
    IF b.kind = "nan" THEN NaN
    ELSE IF b.kind = "inf" THEN Infinity
    ELSE Num(a.n * b.n, a.d * b.d)

\* a / b for a > 0 and b > 0.
divide(a, b) ==
    IF a.kind = "inf" THEN (IF b.kind = "inf" THEN NaN ELSE Infinity)
    ELSE IF b.kind = "inf" THEN Num(0, 1)
    ELSE Num(a.n * b.d, a.d * b.n)

\* Math.round of a finite number: the integer nearest to it, a tie going up.
MathRound(a) == (2 * a.n + a.d) \div (2 * a.d)

\* Number.parseFloat(value.toFixed(6)) of a finite number: the number itself
\* when it has no more than six decimals.
toFixed6(a) ==
    IF 1000000 % a.d = 0 THEN a
    ELSE Num(MathRound(Num(a.n * 1000000, a.d)), 1000000)

\* ------------------------------------------------------------------ strings
\* The ingredient names and units of the model, and what trimming and
\* lower-casing makes of them.
Names == {"Ui", " ui", "Melk"}
Units == {"g", "G ", "kg", "ml", "l", "", "stuk", "el", "gr."}

toLowerCaseTrim(text) ==
    CASE text = "Ui" -> "ui"
      [] text = " ui" -> "ui"
      [] text = "Melk" -> "melk"
      [] text = "G " -> "g"
      [] OTHER -> text

\* normalizeUnit: trimmed, lower-cased, without dots.
normalizeUnit(unit) ==
    IF toLowerCaseTrim(unit) = "gr." THEN "gr" ELSE toLowerCaseTrim(unit)

\* a.localeCompare(b, "nl-NL") < 0 as the rank of a below the rank of b.
localeRank(text) ==
    CASE text = " ui" -> 1
      [] text = "Melk" -> 2
      [] text = "Ui" -> 3
      [] text = "r1" -> 4
      [] text = "r2" -> 5
      [] OTHER -> 0

\* ------------------------------------------------------------ toHumanQuantity
WEIGHT_UNITS == {"g", "gram", "gr", "kg", "kilo"}
VOLUME_UNITS == {"ml", "milliliter", "l", "liter"}
COUNT_UNITS == {"", "stuk", "stuks", "teen", "teentje", "teentjes", "blad",
                "bladen", "blik", "blikje", "blikjes", "ui", "uien"}

classifyUnit(unit) ==
    IF normalizeUnit(unit) \in WEIGHT_UNITS THEN "weight"
    ELSE IF normalizeUnit(unit) \in VOLUME_UNITS THEN "volume"
    ELSE IF normalizeUnit(unit) \in COUNT_UNITS THEN "count"
    ELSE "other"

\* roundToStep with Math.floor in the place of Math.round.
roundToStep_Floor(value, step) ==
    times(step, Num((value.n * step.d) \div (value.d * step.n), 1))

\* roundToStep for a finite value and a step > 0.
roundToStep(value, step) ==
    times(step, Num(MathRound(Num(value.n * step.d, value.d * step.n)), 1))

\* The count branch rounding every amount to its nearest integer.
roundCount_Integer(safeAmount) == Num(MathRound(safeAmount), 1)

\* The count branch of toHumanQuantity before its clamp.
roundCount(safeAmount) ==
    LET nearestInteger == Num(MathRound(safeAmount), 1)
        distance == minus(safeAmount, nearestInteger)
    IN  IF lessOrEqual(Num(abs(distance.n), distance.d), Num(15, 100))
        THEN nearestInteger
        ELSE roundToStep(safeAmount, Num(1, 2))

\* roundedAmount of toHumanQuantity(amount, unit).
toHumanQuantity(amount, unit) ==
    LET safeAmount == IF isFinite(amount) THEN amount ELSE Num(0, 1)
        normalizedUnit == normalizeUnit(unit)
        category == classifyUnit(unit)
        roundedAmount ==
            CASE category = "weight" ->
                   LET multiplier == IF normalizedUnit \in {"kg", "kilo"}
                                     THEN 1000 ELSE 1
                       baseAmount == Num(safeAmount.n * multiplier, safeAmount.d)
                       stepped == roundToStep(baseAmount, Num(5, 1))
                   IN  Num(stepped.n, stepped.d * multiplier)
              [] category = "volume" ->
                   LET multiplier == IF normalizedUnit \in {"l", "liter"}
                                     THEN 1000 ELSE 1
                       baseAmount == Num(safeAmount.n * multiplier, safeAmount.d)
                       stepped == roundToStep(baseAmount, Num(10, 1))
                   IN  Num(stepped.n, stepped.d * multiplier)
              [] category = "count" ->
                   IF less(Num(0, 1), safeAmount) /\ less(roundCount(safeAmount), Num(1, 1))
                   THEN Num(1, 1)
                   ELSE roundCount(safeAmount)
              [] OTHER ->
                   Num(MathRound(Num(safeAmount.n * 10, safeAmount.d)), 10)
    IN  toFixed6(roundedAmount)

\* ------------------------------------------------- scaled aggregation
\* The list page on recipes with ingredient lists and amounts.  A recipe
\* document is [id, baseServings, ingredients], an ingredient [name, unit,
\* amount], a mealPlan document [id, date, mealType, recipeId, servings].

\* normalizeRecipe: baseServings is kept when it is a number above 0.
normalizeRecipe(value) ==
    [value EXCEPT !.baseServings =
        IF isNumber(@) /\ isPositive(@) THEN @ ELSE Num(2, 1)]

\* normalizeMealPlanEntry: servings is kept when it is a number above 0.
normalizeMealPlanEntry(value) ==
    [value EXCEPT !.servings =
        IF isNumber(@) /\ isPositive(@) THEN @ ELSE Num(2, 1)]

\* What watchHouseholdData hands to applySnapshot for the documents read.
snapshotOf(read) ==
    [recipes |-> [i \in 1..Len(read.recipes) |-> normalizeRecipe(read.recipes[i])],
     mealPlan |-> [i \in 1..Len(read.mealPlan) |->
                      normalizeMealPlanEntry(read.mealPlan[i])]]

\* The key without trimming and lower-casing.
getNormalizedIngredientKey_AsWritten(item) == << item.name, item.unit >>

getNormalizedIngredientKey(item) ==
    << toLowerCaseTrim(item.name), toLowerCaseTrim(item.unit) >>

resolveIngredientAmount(amount) ==
    IF isFinite(amount) /\ amount.n > 0 THEN amount ELSE Num(1, 1)

\* One pass of recipe.ingredients.forEach on the ingredientMap, kept as the
\* sequence of its values in insertion order.
setIngredient(ingredientMap, groupId, ingredient, scaling) ==
    LET normalizedKey == getNormalizedIngredientKey(ingredient)
        scaledAmount == times(resolveIngredientAmount(ingredient.amount), scaling)
        existing == { i \in 1..Len(ingredientMap) :
                        ingredientMap[i].normalizedKey = normalizedKey }
    IN  IF existing # {}
        THEN [ingredientMap EXCEPT
                 ![CHOOSE i \in existing : TRUE].amount = plus(@, scaledAmount)]
        ELSE Append(ingredientMap,
                    [id |-> getMealIngredientId(groupId, normalizedKey),
                     normalizedKey |-> normalizedKey,
                     name |-> ingredient.name,
                     unit |-> ingredient.unit,
                     amount |-> scaledAmount])

RECURSIVE ingredientMapOf(_, _, _)
ingredientMapOf(ingredients, groupId, scaling) ==
    IF ingredients = << >> THEN << >>
    ELSE setIngredient(
             ingredientMapOf(SubSeq(ingredients, 1, Len(ingredients) - 1),
                             groupId, scaling),
             groupId, ingredients[Len(ingredients)], scaling)

\* Array.prototype.sort with (a, b) => a.name.localeCompare(b.name, "nl-NL").
RECURSIVE sortByName(_)
sortByName(items) ==
    IF items = << >> THEN << >>
    ELSE LET sorted == sortByName(SubSeq(items, 1, Len(items) - 1))
             x == items[Len(items)]
             k == Cardinality({ i \in 1..Len(sorted) :
                      localeRank(sorted[i].name) <= localeRank(x.name) })
         IN  SubSeq(sorted, 1, k) \o << x >> \o SubSeq(sorted, k + 1, Len(sorted))

MEAL_TYPE_ORDER(mealType) ==
    CASE mealType = "lunch" -> 0 [] mealType = "dinner" -> 1 [] OTHER -> 2

\* The comparator of groups.sort is not above 0: a stays before b.
groupNotAfter(a, b) ==
    IF a.date # b.date THEN a.date < b.date
    ELSE IF MEAL_TYPE_ORDER(a.mealType) # MEAL_TYPE_ORDER(b.mealType)
         THEN MEAL_TYPE_ORDER(a.mealType) < MEAL_TYPE_ORDER(b.mealType)
         ELSE localeRank(a.title) <= localeRank(b.title)

RECURSIVE sortGroups(_)
sortGroups(groups) ==
    IF groups = << >> THEN << >>
    ELSE LET sorted == sortGroups(SubSeq(groups, 1, Len(groups) - 1))
             x == groups[Len(groups)]
             k == Cardinality({ i \in 1..Len(sorted) : groupNotAfter(sorted[i], x) })
         IN  SubSeq(sorted, 1, k) \o << x >> \o SubSeq(sorted, k + 1, Len(sorted))

\* recipesById.get(recipeId): the last recipe of the list with that id.
recipeById(recs, recipeId) ==
    LET hits == { i \in 1..Len(recs) : recs[i].id = recipeId }
    IN  recs[CHOOSE i \in hits : \A j \in hits : j <= i]

\* The group mealGroups pushes for an entry in the window with a recipe.
mealGroupOf(entry, recipe) ==
    LET groupId == getMealGroupId(entry)
        scaling == divide(entry.servings, recipe.baseServings)
    IN  [id |-> groupId,
         date |-> entry.date,
         mealType |-> entry.mealType,
         recipeId |-> entry.recipeId,
         title |-> recipe.id,
         servings |-> entry.servings,
         ingredients |->
             sortByName(ingredientMapOf(recipe.ingredients, groupId, scaling))]

RECURSIVE pushedGroups(_, _, _)
pushedGroups(plan, recs, start) ==
    IF plan = << >> THEN << >>
    ELSE LET groups == pushedGroups(SubSeq(plan, 1, Len(plan) - 1), recs, start)
             entry == plan[Len(plan)]
         IN  IF /\ isWithinInterval(newDate(entry.date), startOfDay(start),
                                    endOfWeek(startOfDay(start)))
                /\ \E i \in 1..Len(recs) : recs[i].id = entry.recipeId
             THEN Append(groups, mealGroupOf(entry, recipeById(recs, entry.recipeId)))
             ELSE groups

\* mealGroups on the lists of the store, with amounts: one group per entry of
\* the week whose recipe is found, in the order of the sort.
scaledMealGroups(plan, recs, start) == sortGroups(pushedGroups(plan, recs, start))

\* bringItems: the included ingredients of all groups, one item per
\* normalized key in order of first occurrence, then sorted by name.
RECURSIVE aggregated(_, _, _)
aggregated(ingredients, mealIds, ingredientIds) ==
    IF ingredients = << >> THEN << >>
    ELSE LET items == aggregated(SubSeq(ingredients, 1, Len(ingredients) - 1),
                                 mealIds, ingredientIds)
             ingredient == ingredients[Len(ingredients)]
             existing == { i \in 1..Len(items) :
                             items[i].normalizedKey = ingredient.normalizedKey }
         IN  IF ingredient.groupId \in mealIds \/ ingredient.id \in ingredientIds
             THEN items
             ELSE IF existing # {}
                  THEN [items EXCEPT ![CHOOSE i \in existing : TRUE].amount =
                                        plus(@, ingredient.amount)]
                  ELSE Append(items, [normalizedKey |-> ingredient.normalizedKey,
                                      name |-> ingredient.name,
                                      unit |-> ingredient.unit,
                                      amount |-> ingredient.amount])

\* The ingredients of all groups in the order the two forEach loops visit them.
RECURSIVE allIngredients(_)
allIngredients(groups) ==
    IF groups = << >> THEN << >>
    ELSE allIngredients(SubSeq(groups, 1, Len(groups) - 1)) \o
         [i \in 1..Len(groups[Len(groups)].ingredients) |->
             [groupId |-> groups[Len(groups)].id,
              id |-> groups[Len(groups)].ingredients[i].id,
              normalizedKey |-> groups[Len(groups)].ingredients[i].normalizedKey,
              name |-> groups[Len(groups)].ingredients[i].name,
              unit |-> groups[Len(groups)].ingredients[i].unit,
              amount |-> groups[Len(groups)].ingredients[i].amount]]

\* bringItems with every included meal ingredient as an item of its own.
scaledBringItems_NoMerge(groups, mealIds, ingredientIds) ==
    sortByName(SelectSeq(allIngredients(groups),
                         LAMBDA x : x.groupId \notin mealIds /\ x.id \notin ingredientIds))

scaledBringItems(groups, mealIds, ingredientIds) ==
    sortByName(aggregated(allIngredients(groups), mealIds, ingredientIds))

\* The argument of createBringShareSnapshot in handleSendToBring.
sharePayload(items, start) ==
    [items |-> [i \in 1..Len(items) |->
                   [name |-> items[i].name,
                    amount |-> toHumanQuantity(items[i].amount, items[i].unit),
                    unit |-> items[i].unit]],
     servings |-> 1,
     sourceWeekStart |-> start]

\* A snapshot of the documents is applied and the list page renders it.
showList ==
    /\ ~view.rendered
    /\ LET snapshot == snapshotOf(documents)
           groups == scaledMealGroups(snapshot.mealPlan, snapshot.recipes, startDate)
       IN  view' = [rendered |-> TRUE,
                    sent |-> FALSE,
                    groups |-> groups,
                    bringItems |-> scaledBringItems(groups, notToBringMealIds,
                                                    notToBringIngredientIds)]
    /\ UNCHANGED << mode, tzOffset, documents, quantity, providerVars, recipes, mealPlan,
                    backendVars, storage, listVars, exportVars, last >>

\* handleSendToBring on the rendered list, up to its publish call.
sendList ==
    /\ view.rendered
    /\ ~view.sent
    /\ mode = "firebase"
    /\ ~busy
    /\ view.bringItems # << >>
    /\ view' = [view EXCEPT !.sent = TRUE] @@
               [payload |-> sharePayload(view.bringItems, startDate)]
    /\ busy' = TRUE
    /\ error' = NoError
    /\ UNCHANGED << mode, tzOffset, documents, quantity, providerVars, recipes, mealPlan,
                    backendVars, storage, mounted, startDate, notToBringMealIds,
                    notToBringIngredientIds, bringPreferencesLoaded, inflight,
                    setsKey, exportVars, last >>

\* toHumanQuantity is called with the amount and the unit of one item.
callToHumanQuantity(amount, unit) ==
    /\ quantity' = [called |-> TRUE, amount |-> amount, unit |-> unit,
                    roundedAmount |-> toHumanQuantity(amount, unit)]
    /\ UNCHANGED << mode, tzOffset, documents, view, providerVars, recipes, mealPlan, backendVars,
                    storage, listVars, exportVars, last >>

\* ------------------------------------------------------------ specification
\* The list page: its events, the publish calls it starts, and the store's
\* recipe edits while it is open.  The meal plan stays as planned.
Next ==
    \/ MountEffects
    \/ \E g \in currentGroups : toggleMealBringInclusion(g)
    \/ \E g \in currentGroups : \E i \in g.ingredients :
          toggleIngredientBringInclusion(g, i)
    \/ resetBringPreferencesForWeek
    \/ nextWeek
    \/ prevWeek
    \/ handleSendToBring
    \/ \E c \in inflight : sendResolved(c)
    \/ \E c \in inflight : sendRejected(c)
    \/ \E r \in EditedRecipes : \E keys \in EditedLists : updateRecipe(r, keys)

Spec == Init /\ [][Next]_vars

\* The list page with the back-up export page opened from it: the list's
\* toggles, week changes and sends, and the export page's events.
NextExport ==
    \/ MountEffects
    \/ \E g \in currentGroups : toggleMealBringInclusion(g)
    \/ \E g \in currentGroups : \E i \in g.ingredients :
          toggleIngredientBringInclusion(g, i)
    \/ nextWeek
    \/ prevWeek
    \/ handleSendToBring
    \/ \E c \in inflight : sendResolved(c)
    \/ \E c \in inflight : sendRejected(c)
    \/ openExportPage
    \/ handleGenerateLink
    \/ \E c \in exportInflight : \E ok \in BOOLEAN : generateSettled(c, ok)

SpecExport == Init /\ [][NextExport]_vars

\* The load effect on whatever localStorage may hold: the list page is mounted
\* and moved between the weeks over arbitrary raw values.
RawMealId == getMealGroupId([date |-> 0, mealType |-> "dinner", recipeId |-> "r1"])
RawLegacyMealId == getMealGroupId([date |-> 6, mealType |-> "lunch", recipeId |-> "r2"])

RawItems ==
    { NullItem,
      GarbageItem,
      Item("json", NotArray, NotArray, NotArray, NotArray),
      LegacyItem(0),
      Item("json", Arr({RawMealId, NotAString}), Arr({NotAString}),
           Arr({RawLegacyMealId}), Arr({getMealIngredientId(RawLegacyMealId, 1)})),
      Item("json", NotArray, Arr({getMealIngredientId(RawMealId, 2), NotAString}),
           Arr({RawLegacyMealId, NotAString}), NotArray),
      storagePayload({RawMealId}, {getMealIngredientId(RawMealId, 1),
                                   getMealIngredientId(RawMealId, 2)}) }

InitLoad ==
    /\ mode \in {"firebase", "local"}
    /\ tzOffset = HomeOffset
    /\ recipes = [r \in RecipeIds |-> IF r \in EditedRecipes THEN Keys ELSE {1}]
    /\ mealPlan = PlanEntries
    /\ storage \in [StorageKeys -> RawItems]
    /\ mounted = FALSE
    /\ startDate = Today
    /\ notToBringMealIds = {}
    /\ notToBringIngredientIds = {}
    /\ bringPreferencesLoaded = FALSE
    /\ busy = FALSE
    /\ error = NoError
    /\ inflight = {}
    /\ exportStart = Today
    /\ exportBusy = FALSE
    /\ exportError = NoError
    /\ exportInflight = {}
    /\ setsKey = bringPreferenceStorageKey(Today)
    /\ last = "init"
    /\ BackendInit

NextLoad ==
    \/ MountEffects
    \/ nextWeek
    \/ prevWeek

SpecLoad == InitLoad /\ [][NextLoad]_vars

\* Two clients of one household on the Firestore collections.
InitData ==
    /\ Init
    /\ mode = "firebase"
    /\ storage = [k \in StorageKeys |-> NullItem]

NextData ==
    \/ \E cl \in Clients : \E r \in RecipeIds : deleteRecipeQuery(cl, r)
    \/ \E cl \in Clients : deleteRecipeCommit(cl)
    \/ \E cl \in Clients : \E draft \in Drafts : upsertMealPlanEntryQuery(cl, draft)
    \/ \E cl \in Clients : upsertMealPlanEntryCommit(cl)
    \/ \E cl \in Clients : \E entry \in fsMealPlan : removeMealPlanEntryQuery(cl, entry)
    \/ \E cl \in Clients : removeMealPlanEntryCommit(cl)

SpecData == InitData /\ [][NextData]_vars

\* Snapshots are created and their tokens read as the time passes.
NextShare ==
    \/ Tick
    \/ \E token \in Tokens : \E skew \in ClockSkews :
          createBringShareSnapshot(token, skew)
    \/ \E token \in Tokens : fetchShareSnapshot(token)

SpecShare == InitData /\ [][NextShare]_vars

\* The list page in browsers of several time zones.
TimeZoneOffsets == {-5, 0, HomeOffset}

InitWindow ==
    /\ mode \in {"firebase", "local"}
    /\ tzOffset \in TimeZoneOffsets
    /\ recipes = [r \in RecipeIds |-> IF r \in EditedRecipes THEN Keys ELSE {1}]
    /\ mealPlan = PlanEntries
    /\ storage = [k \in StorageKeys |-> NullItem]
    /\ mounted = FALSE
    /\ startDate = Today
    /\ notToBringMealIds = {}
    /\ notToBringIngredientIds = {}
    /\ bringPreferencesLoaded = FALSE
    /\ busy = FALSE
    /\ error = NoError
    /\ inflight = {}
    /\ exportStart = Today
    /\ exportBusy = FALSE
    /\ exportError = NoError
    /\ exportInflight = {}
    /\ setsKey = bringPreferenceStorageKey(Today)
    /\ last = "init"
    /\ BackendInit

NextWindow ==
    \/ MountEffects
    \/ nextWeek
    \/ prevWeek
    \/ \E g \in currentGroups : toggleMealBringInclusion(g)

SpecWindow == InitWindow /\ [][NextWindow]_vars

\* toHumanQuantity on amounts in steps of 0.05, on the amounts of the weights
\* and volumes below, and on values that are not finite.
MaxTwentieths == 60
Amounts ==
    { Num(k, 20) : k \in (0 - 30)..MaxTwentieths }
        \cup { Num(k, 1) : k \in {7, 12, 14, 15, 333, 996} }
        \cup { Num(k, 1000) : k \in {2, 333, 1002} }
        \cup { Num(1, 400), Num(4, 100), Num(6, 100) }
        \cup { Infinity, NegativeInfinity, NaN }

NextQuantity ==
    \E amount \in Amounts : \E unit \in Units : callToHumanQuantity(amount, unit)

SpecQuantity == InitData /\ [][NextQuantity]_vars

\* The list page on documents with amounts: recipe r1 with any list of up to
\* MaxIngredients of the ingredients below and any stored baseServings, recipe
\* r2 as it is, and the plans below with any stored servings of the first entry.
MaxIngredients == 2

RawServings ==
    { Num(1, 1), Num(2, 1), Num(4, 1), Num(0, 1), Num(0 - 1, 1),
      NaN, Infinity, NotANumber }

Ingredient(name, unit, amount) == [name |-> name, unit |-> unit, amount |-> amount]

IngredientChoices ==
    { Ingredient("Ui", "stuk", Num(1, 1)),
      Ingredient(" ui", "stuk", Num(0, 1)),
      Ingredient("Melk", "ml", Num(100, 1)),
      Ingredient("Melk", "l", NaN),
      Ingredient("Ui", "g", Num(2, 1)),
      Ingredient("Ui", "G ", Num(100, 1)) }

IngredientLists ==
    UNION { [1..n -> IngredientChoices] : n \in 0..MaxIngredients }

SecondRecipe ==
    [id |-> "r2", baseServings |-> Num(2, 1),
     ingredients |-> << Ingredient("Melk", "ml", Num(100, 1)),
                        Ingredient("Ui", "stuk", Infinity) >>]

RecipeDocuments ==
    { << [id |-> "r1", baseServings |-> b, ingredients |-> list], SecondRecipe >> :
        b \in RawServings, list \in IngredientLists }

Entry(id, date, mealType, recipeId, servings) ==
    [id |-> id, date |-> date, mealType |-> mealType, recipeId |-> recipeId,
     servings |-> servings]

\* One entry; the same triple twice; two recipes in one slot; the planned weeks
\* with an entry whose recipe is gone; a later entry stored first.
PlanDocuments ==
    UNION { { << Entry(1, 0, "dinner", "r1", s) >>,
              << Entry(1, 0, "dinner", "r1", s), Entry(2, 0, "dinner", "r1", Num(2, 1)) >>,
              << Entry(1, 0, "dinner", "r1", s), Entry(2, 0, "dinner", "r2", Num(2, 1)) >>,
              << Entry(1, 0, "dinner", "r1", s), Entry(2, 6, "lunch", "r2", Num(4, 1)),
                 Entry(3, 7, "dinner", "r2", Num(2, 1)),
                 Entry(4, 1, "dinner", "gone", Num(2, 1)) >>,
              << Entry(1, 2, "lunch", "r2", Num(2, 1)), Entry(2, 0, "dinner", "r1", s) >> } :
            s \in RawServings \ {Num(1, 1), Num(0 - 1, 1), NaN} }

FirstMealId == getMealGroupId([date |-> 0, mealType |-> "dinner", recipeId |-> "r1"])

\* The exclusion sets the page has loaded: nothing, the first meal, or one of
\* its ingredients.
LoadedExclusions ==
    { << {}, {} >>,
      << {FirstMealId}, {} >>,
      << {}, {getMealIngredientId(FirstMealId, << "ui", "stuk" >>)} >> }

InitScaled ==
    /\ mode \in {"firebase", "local"}
    /\ tzOffset = HomeOffset
    /\ recipes = [r \in RecipeIds |-> IF r \in EditedRecipes THEN Keys ELSE {1}]
    /\ mealPlan = PlanEntries
    /\ storage = [k \in StorageKeys |-> NullItem]
    /\ mounted = TRUE
    /\ startDate = Today
    /\ \E ex \in LoadedExclusions :
          /\ notToBringMealIds = ex[1]
          /\ notToBringIngredientIds = ex[2]
    /\ bringPreferencesLoaded = TRUE
    /\ busy = FALSE
    /\ error = NoError
    /\ inflight = {}
    /\ exportStart = Today
    /\ exportBusy = FALSE
    /\ exportError = NoError
    /\ exportInflight = {}
    /\ setsKey = bringPreferenceStorageKey(Today)
    /\ last = "init"
    /\ fsRecipes = RecipeIds
    /\ fsMealPlan = {}
    /\ fsNextId = 1
    /\ fsCalls = [cl \in Clients |-> Idle]
    /\ now = 1
    /\ bringShares = {}
    /\ shareRead = NoRead
    /\ \E rs \in RecipeDocuments : \E plan \in PlanDocuments :
          documents = [recipes |-> rs, mealPlan |-> plan]
    /\ view = NoView
    /\ quantity = NoQuantity
    /\ ProviderInit

NextScaled ==
    \/ showList
    \/ sendList

SpecScaled == InitScaled /\ [][NextScaled]_vars

\* ------------------------------------------------------------ StoreProvider
\* The provider's recipes and mealPlan against the collections of its data
\* source.  A recipe is its ingredient keys and the length of its cooking
\* history; a mutation is the data source's call with no other client's write
\* between its query and its commit.
MaxWrites == 2
MaxCooked == 1

StoreDrafts == { d \in Drafts : d.mealType = "dinner" }
Mutations == {"addRecipe", "updateRecipe", "deleteRecipe", "markAsCooked",
              "addToMealPlan", "removeFromMealPlan"}

pagesAndBackend == << documents, view, quantity, backendVars, storage, listVars,
                     exportVars >>

\* FirebaseDataSource keeps a collection per household; LocalDataSource keeps
\* one array per kind under a fixed key, whatever the household.
collectionOf(h) == IF mode = "firebase" THEN h ELSE "localStorage"

without(rs, id) == [r \in (DOMAIN rs) \ {id} |-> rs[r]]
withRecipe(rs, id, recipe) ==
    [r \in (DOMAIN rs) \cup {id} |-> IF r = id THEN recipe ELSE rs[r]]
inSlot(entry, draft) == entry.date = draft.date /\ entry.mealType = draft.mealType

\* applySnapshot past its guard on the effect's active flag.
applySnapshot(h, snapshot) ==
    /\ recipes' = snapshot.recipes
    /\ mealPlan' = snapshot.mealPlan
    /\ householdCache' = [householdCache EXCEPT ![h] =
                            [cached |-> TRUE, recipes |-> snapshot.recipes,
                             mealPlan |-> snapshot.mealPlan]]
    /\ applied' = h

\* The household changes: the cleanup of the previous run of the effect, then
\* its next run.  LocalDataSource reads its arrays before loadHouseholdData
\* returns, and its watchHouseholdData registers nothing.
setHousehold(h) ==
    /\ h # household
    /\ household' = h
    /\ IF mode = "firebase"
       THEN /\ loads' = { [p EXCEPT !.active = FALSE] : p \in loads }
                           \cup { [household |-> h, active |-> TRUE] }
            /\ watch' = [listening |-> TRUE, household |-> h,
                         recipes |-> NoData.recipes, mealPlan |-> NoData.mealPlan,
                         due |-> {"recipes", "mealPlan"}]
            /\ IF householdCache[h].cached
               THEN /\ recipes' = householdCache[h].recipes
                    /\ mealPlan' = householdCache[h].mealPlan
               ELSE UNCHANGED << recipes, mealPlan >>
            /\ UNCHANGED << householdCache, applied >>
       ELSE /\ loads' = { [p EXCEPT !.active = FALSE] : p \in loads }
            /\ watch' = NoWatch
            /\ applySnapshot(h, collections[collectionOf(h)])
    /\ last' = "setHousehold"
    /\ UNCHANGED << mode, tzOffset, collections, writes, pagesAndBackend >>

\* The promise of FirebaseDataSource.loadHouseholdData settles and its then
\* callback runs.
loadResolved(p) ==
    /\ p \in loads
    /\ loads' = loads \ {p}
    /\ IF p.active
       THEN /\ applySnapshot(p.household, collections[collectionOf(p.household)])
            /\ last' = "applySnapshot"
       ELSE /\ last' = "snapshotDropped"
            /\ UNCHANGED << recipes, mealPlan, householdCache, applied >>
    /\ UNCHANGED << mode, tzOffset, household, collections, watch, writes,
                    pagesAndBackend >>

\* One of the two onSnapshot listeners fires: it replaces its half of the
\* listeners' pair and pushes the pair.
deliverSnapshot(kind) ==
    /\ watch.listening
    /\ kind \in watch.due
    /\ LET data == collections[collectionOf(watch.household)]
           next == [watch EXCEPT
                      !.recipes = IF kind = "recipes" THEN data.recipes ELSE @,
                      !.mealPlan = IF kind = "mealPlan" THEN data.mealPlan ELSE @,
                      !.due = @ \ {kind}]
       IN  /\ watch' = next
           /\ applySnapshot(watch.household,
                            [recipes |-> next.recipes, mealPlan |-> next.mealPlan])
    /\ last' = "applySnapshot"
    /\ UNCHANGED << mode, tzOffset, household, collections, loads, writes,
                    pagesAndBackend >>

\* requireSession returns: a household is selected (the user always is here).
requireSession == household # NoHousehold

\* A mutation of the provider resolves: the data source has written data, the
\* listeners of the collections named in changed will fire, and the provider
\* sets no state of its own.
resolved(name, data, changed) ==
    /\ writes < MaxWrites
    /\ writes' = writes + 1
    /\ collections' = [collections EXCEPT ![collectionOf(household)] = data]
    /\ watch' = IF watch.listening
                THEN [watch EXCEPT !.due = @ \cup changed]
                ELSE watch
    /\ last' = name
    /\ UNCHANGED << mode, tzOffset, recipes, mealPlan, household, householdCache,
                    loads, applied, pagesAndBackend >>

addRecipe(keys) ==
    LET data == collections[collectionOf(household)]
        fresh == RecipeIds \ DOMAIN data.recipes
        id == CHOOSE r \in fresh : TRUE
    IN  /\ requireSession
        /\ fresh # {}
        /\ resolved("addRecipe",
                    [data EXCEPT !.recipes =
                       withRecipe(@, id, [ingredients |-> keys, cookingHistory |-> 0])],
                    {"recipes"})

\* updateRecipe: the recipe object of the form, built from the provider's copy.
\* setDoc with merge writes the document whether or not it exists;
\* LocalDataSource replaces the element with the recipe's id, if there is one.
updateStoredRecipe(id, keys) ==
    LET data == collections[collectionOf(household)]
    IN  /\ requireSession
        /\ id \in DOMAIN recipes
        /\ recipes[id].ingredients # keys
        /\ resolved("updateRecipe",
                    IF mode = "firebase" \/ id \in DOMAIN data.recipes
                    THEN [data EXCEPT !.recipes =
                            withRecipe(@, id, [recipes[id] EXCEPT !.ingredients = keys])]
                    ELSE data,
                    {"recipes"})

deleteRecipe(id) ==
    LET data == collections[collectionOf(household)]
        kept == { entry \in data.mealPlan : entry.recipeId # id }
    IN  /\ requireSession
        /\ id \in DOMAIN recipes
        /\ resolved("deleteRecipe",
                    [recipes |-> without(data.recipes, id), mealPlan |-> kept],
                    (IF id \in DOMAIN data.recipes THEN {"recipes"} ELSE {})
                        \cup (IF kept # data.mealPlan THEN {"mealPlan"} ELSE {}))

\* markAsCooked: updateDoc rejects when the document is missing; LocalDataSource
\* maps over the array and resolves either way.
markAsCooked(id) ==
    LET data == collections[collectionOf(household)]
    IN  /\ requireSession
        /\ id \in DOMAIN recipes
        /\ mode = "firebase" => id \in DOMAIN data.recipes
        /\ id \in DOMAIN data.recipes => data.recipes[id].cookingHistory < MaxCooked
        /\ resolved("markAsCooked",
                    IF id \in DOMAIN data.recipes
                    THEN [data EXCEPT !.recipes[id].cookingHistory = @ + 1]
                    ELSE data,
                    {"recipes"})

addToMealPlan(draft) ==
    LET data == collections[collectionOf(household)]
    IN  /\ requireSession
        /\ draft.recipeId \in DOMAIN recipes
        /\ resolved("addToMealPlan",
                    [data EXCEPT !.mealPlan =
                       { entry \in @ : ~inSlot(entry, draft) } \cup {draft}],
                    {"mealPlan"})

removeFromMealPlan(entry) ==
    LET data == collections[collectionOf(household)]
    IN  /\ requireSession
        /\ entry \in mealPlan
        /\ resolved("removeFromMealPlan",
                    [data EXCEPT !.mealPlan = @ \ {entry}],
                    IF entry \in data.mealPlan THEN {"mealPlan"} ELSE {})

\* The first household (and the local arrays) hold recipe r1 and one planned
\* dinner; the second household holds nothing.
FirstData ==
    [recipes |-> [r \in EditedRecipes |-> [ingredients |-> {1}, cookingHistory |-> 0]],
     mealPlan |-> { [date |-> 0, mealType |-> "dinner", recipeId |-> "r1"] }]

InitStore ==
    /\ mode \in {"firebase", "local"}
    /\ tzOffset = HomeOffset
    /\ recipes = NoData.recipes
    /\ mealPlan = NoData.mealPlan
    /\ storage = [k \in StorageKeys |-> NullItem]
    /\ mounted = FALSE
    /\ startDate = Today
    /\ notToBringMealIds = {}
    /\ notToBringIngredientIds = {}
    /\ bringPreferencesLoaded = FALSE
    /\ busy = FALSE
    /\ error = NoError
    /\ inflight = {}
    /\ exportStart = Today
    /\ exportBusy = FALSE
    /\ exportError = NoError
    /\ exportInflight = {}
    /\ setsKey = bringPreferenceStorageKey(Today)
    /\ last = "init"
    /\ fsRecipes = RecipeIds
    /\ fsMealPlan = {}
    /\ fsNextId = 1
    /\ fsCalls = [cl \in Clients |-> Idle]
    /\ now = 1
    /\ bringShares = {}
    /\ shareRead = NoRead
    /\ documents = NoDocs
    /\ view = NoView
    /\ quantity = NoQuantity
    /\ household = NoHousehold
    /\ collections = [k \in CollectionKeys |-> IF k = "h2" THEN NoData ELSE FirstData]
    /\ householdCache = [h \in Households |-> NoCache]
    /\ loads = {}
    /\ watch = NoWatch
    /\ writes = 0
    /\ applied = NoHousehold

NextStore ==
    \/ \E h \in Households : setHousehold(h)
    \/ \E p \in loads : loadResolved(p)
    \/ \E kind \in {"recipes", "mealPlan"} : deliverSnapshot(kind)
    \/ addRecipe({1})
    \/ \E id \in EditedRecipes : \E keys \in EditedLists : updateStoredRecipe(id, keys)
    \/ \E id \in RecipeIds : deleteRecipe(id)
    \/ \E id \in RecipeIds : markAsCooked(id)
    \/ \E draft \in StoreDrafts : addToMealPlan(draft)
    \/ \E entry \in StoreDrafts : removeFromMealPlan(entry)

SpecStore == InitStore /\ [][NextStore]_vars

\* The event loop runs every settled promise's callbacks and the SDK delivers
\* every snapshot it owes; the user's actions are under no obligation.
SpecStoreFair ==
    /\ SpecStore
    /\ WF_vars(\E p \in loads : loadResolved(p))
    /\ WF_vars(deliverSnapshot("recipes"))
    /\ WF_vars(deliverSnapshot("mealPlan"))

\* ------------------------------------------------------------------ claims
\* C1 (as claimed): in every state of the mounted list page, a meal group of
\* the displayed week that has at least one ingredient and all of whose
\* ingredient ids are in notToBringIngredientIds has its id in notToBringMealIds.
C1_AllIngredientsExcludedImpliesMeal ==
    mounted =>
        \A g \in currentGroups :
            (g.ingredients # {} /\ g.ingredients \subseteq notToBringIngredientIds)
                => g.id \in notToBringMealIds

\* C2: a toggleIngredient step flips the membership of exactly the toggled
\* ingredient id, leaves every other ingredient id as it was, puts the group id
\* in notToBringMealIds exactly when all of the group's ingredient ids are then in
\* notToBringIngredientIds, and leaves the other meal ids as they were.
C2_ToggleIngredientFlipsOne ==
    [][ \A g \in currentGroups : \A i \in g.ingredients :
          toggleIngredientBringInclusion(g, i) =>
              /\ (i \in notToBringIngredientIds') <=> (i \notin notToBringIngredientIds)
              /\ notToBringIngredientIds' \ {i} = notToBringIngredientIds \ {i}
              /\ (g.id \in notToBringMealIds') <=>
                     (g.ingredients \subseteq notToBringIngredientIds')
              /\ notToBringMealIds' \ {g.id} = notToBringMealIds \ {g.id} ]_vars

\* C2 witness: the last ingredient of a meal of two or more has just been
\* toggled off, and the meal id followed.
C2_Witness ==
    /\ last = "toggleIngredient"
    /\ \E g \in currentGroups :
          /\ Cardinality(g.ingredients) >= 2
          /\ g.ingredients \subseteq notToBringIngredientIds
          /\ g.id \in notToBringMealIds

\* What C3 and C4 call an excluded ingredient: its own id or its meal's id is
\* in the sets.
C3_EveryIngredientExcluded(g) ==
    \A i \in g.ingredients :
        i \in notToBringIngredientIds \/ g.id \in notToBringMealIds

C3_Removes(g) ==
    /\ notToBringMealIds' = notToBringMealIds \ {g.id}
    /\ notToBringIngredientIds' = notToBringIngredientIds \ g.ingredients

C3_Adds(g) ==
    /\ notToBringMealIds' = notToBringMealIds \cup {g.id}
    /\ notToBringIngredientIds' = notToBringIngredientIds \cup g.ingredients

\* C3 (as claimed): a toggleMeal step on a group whose every ingredient is
\* excluded removes the group id and all its ingredient ids from the sets, and
\* on any other group adds them; ids of other groups are untouched.
C3_ToggleMealAsClaimed ==
    [][ \A g \in currentGroups :
          toggleMealBringInclusion(g) =>
              IF C3_EveryIngredientExcluded(g) THEN C3_Removes(g) ELSE C3_Adds(g) ]_vars

\* C3 (amended): a toggleMeal step on a group that has at least one ingredient
\* and whose every ingredient is excluded removes the group id and all its
\* ingredient ids from the sets; on any other group, a group without
\* ingredients included, it adds them; ids of other groups are untouched.
C3_ToggleMeal ==
    [][ \A g \in currentGroups :
          toggleMealBringInclusion(g) =>
              IF g.ingredients # {} /\ C3_EveryIngredientExcluded(g)
              THEN C3_Removes(g)
              ELSE C3_Adds(g) ]_vars

\* C3 witness: toggleMeal has just put back a meal with ingredients while another
\* meal of the week stays excluded.
C3_Witness ==
    /\ last = "toggleMeal"
    /\ \E g \in currentGroups :
          /\ g.ingredients # {}
          /\ g.id \notin notToBringMealIds
          /\ g.ingredients \cap notToBringIngredientIds = {}
    /\ \E h \in currentGroups : h.id \in notToBringMealIds

\* The sets after toggleMeal twice on group g.
C4_TwiceMealIds(g) ==
    toggleMealIds(toggleMealIds(notToBringMealIds, notToBringIngredientIds, g),
                  toggleMealIngredientIds(notToBringMealIds, notToBringIngredientIds, g),
                  g)

C4_TwiceIngredientIds(g) ==
    toggleMealIngredientIds(
        toggleMealIds(notToBringMealIds, notToBringIngredientIds, g),
        toggleMealIngredientIds(notToBringMealIds, notToBringIngredientIds, g),
        g)

C4_NothingExcluded(g) ==
    /\ g.id \notin notToBringMealIds
    /\ g.ingredients \cap notToBringIngredientIds = {}

\* C4 (as claimed): for a group none of whose ingredients is excluded,
\* whatever the number of its ingredients, toggleMeal twice gives back the sets
\* as they were.
C4_ToggleMealTwiceAsClaimed ==
    mounted =>
        \A g \in currentGroups :
            C4_NothingExcluded(g) =>
                /\ C4_TwiceMealIds(g) = notToBringMealIds
                /\ C4_TwiceIngredientIds(g) = notToBringIngredientIds

\* C4 (amended): for a group with at least one ingredient, none of them
\* excluded, toggleMeal once excludes the group and all its ingredients and
\* toggleMeal twice gives back the sets as they were.
C4_ToggleMealTwice ==
    mounted =>
        \A g \in currentGroups :
            (g.ingredients # {} /\ C4_NothingExcluded(g)) =>
                /\ g.id \in toggleMealIds(notToBringMealIds,
                                          notToBringIngredientIds, g)
                /\ g.ingredients \subseteq
                       toggleMealIngredientIds(notToBringMealIds,
                                               notToBringIngredientIds, g)
                /\ C4_TwiceMealIds(g) = notToBringMealIds
                /\ C4_TwiceIngredientIds(g) = notToBringIngredientIds

\* C4 witness: a second toggleMeal has just put a meal of two ingredients back
\* to fully included, with other exclusions of the week present.
C4_Witness ==
    /\ last = "toggleMeal"
    /\ \E g \in currentGroups :
          /\ Cardinality(g.ingredients) >= 2
          /\ C4_NothingExcluded(g)
    /\ notToBringIngredientIds # {}

\* The items of the week that starts at start which the persisted inclusion
\* state of that week leaves included.
C5_Included(start) ==
    bringItems(mealGroups(mealPlan, recipes, start),
               parseMealIds(storage[bringPreferenceStorageKey(start)]),
               parseIngredientIds(storage[bringPreferenceStorageKey(start)]))

\* C5 (as claimed): on every path that calls createBringShareSnapshot, the
\* payload handed over holds exactly the ingredients that are not excluded at
\* the moment the export is triggered: the list page's send by its in-memory
\* sets, the export page's link by the inclusion state of its week.
C5_PayloadIsTheIncludedItems ==
    [][ /\ handleSendToBring =>
              \A c \in inflight' \ inflight : c.items = currentBringItems
        /\ handleGenerateLink =>
              \A c \in exportInflight' \ exportInflight :
                  c.items = C5_Included(exportStart) ]_vars

\* C6 (as claimed): an export triggered while every ingredient of the week is
\* excluded sets an error and calls createBringShareSnapshot on neither path.
C6_NothingIncludedNoPublish ==
    [][ /\ (handleSendToBring /\ currentBringItems = {}) =>
              (inflight' = inflight /\ error' # NoError)
        /\ (handleGenerateLink /\ C5_Included(exportStart) = {}) =>
              (exportInflight' = exportInflight /\ exportError' # NoError) ]_vars

\* C7 (as claimed): once resetBringPreferencesForWeek and its effects have run,
\* both sets are empty and localStorage holds no item under the current key.
C7_ResetLeavesNoRecord ==
    last = "reset" =>
        /\ notToBringMealIds = {}
        /\ notToBringIngredientIds = {}
        /\ storage[currentKey].kind = "null"

\* C8: once a toggleMeal, a toggleIngredient or the markWeekAsNotToBring of a
\* resolved send and its effects have run, the item under the current key is a
\* record whose notToBring arrays hold exactly the in-memory sets, and the load
\* effect would read the same two sets back from it.
C8_PersistedIsInMemory ==
    last \in {"toggleMeal", "toggleIngredient", "sendResolved"} =>
        LET rec == storage[currentKey]
        IN  /\ rec.kind = "json"
            /\ rec.notToBringMealIds = Arr(notToBringMealIds)
            /\ rec.notToBringIngredientIds = Arr(notToBringIngredientIds)
            /\ parseMealIds(rec) = notToBringMealIds
            /\ parseIngredientIds(rec) = notToBringIngredientIds

\* C8 witness: a send started in one week has resolved while the list shows the
\* other week, with ingredient ids in the sets.
C8_Witness ==
    /\ last = "sendResolved"
    /\ setsKey # currentKey
    /\ notToBringIngredientIds # {}

\* C9: when the publish call of a send resolves, every group the send exported
\* and every ingredient of those groups is in the in-memory sets and in the
\* record persisted under the exported week's key; a send that follows at once,
\* with the list still on the exported week, finds nothing to bring and makes no
\* publish call.
C9_ExportedIsExcluded ==
    [][ /\ \A c \in inflight :
              sendResolved(c) =>
                  \A g \in c.groups :
                      /\ g.id \in notToBringMealIds'
                      /\ g.ingredients \subseteq notToBringIngredientIds'
                      /\ g.id \in parseMealIds(storage'[c.key])
                      /\ g.ingredients \subseteq parseIngredientIds(storage'[c.key])
        /\ (last = "sendResolved" /\ setsKey = currentKey /\ handleSendToBring) =>
              /\ currentBringItems = {}
              /\ inflight' = inflight
              /\ error' = ErrEmpty ]_vars

\* C9 witness: the publish call of a send has just resolved for the week the
\* list shows, a meal of two ingredients among the exported ones, and nothing
\* is left to bring.
C9_Witness ==
    /\ last = "sendResolved"
    /\ setsKey = currentKey
    /\ currentGroups # {}
    /\ currentBringItems = {}
    /\ \E g \in currentGroups :
          /\ Cardinality(g.ingredients) >= 2
          /\ g.id \in notToBringMealIds
          /\ g.ingredients \subseteq notToBringIngredientIds
          /\ g.ingredients \subseteq parseIngredientIds(storage[currentKey])

\* C10 (as claimed): a toggleMeal, toggleIngredient or reset step is taken only
\* when the record of the current key has been loaded, and the sets it starts
\* from are the sets of the current key, not those of another week's key.
C10_ToggleOnLoadedSetsOfCurrentKey ==
    [][ last' \in {"toggleMeal", "toggleIngredient", "reset"} =>
            (bringPreferencesLoaded /\ setsKey = currentKey) ]_vars

C12_OnePublishInFlight ==
    /\ Cardinality(inflight) <= 1
    /\ Cardinality(exportInflight) <= 1

\* The steps of the two export actions.
C13_ExportSteps ==
    {"send", "sendResolved", "sendRejected",
     "generateLink", "generateResolved", "generateRejected"}

\* C13: when mode is not "firebase", no step of an export action is ever taken
\* on either page: no publish call is pending, no busy flag is set, and so no
\* snapshot is created and no set is changed by an export.
C13_LocalModeNoExport ==
    mode # "firebase" =>
        /\ last \notin C13_ExportSteps
        /\ inflight = {}
        /\ exportInflight = {}
        /\ ~busy
        /\ ~exportBusy

\* C13 witness: in local mode the export page has been opened from a list with
\* exclusions on record.
C13_Witness ==
    /\ mode = "local"
    /\ last = "openExport"
    /\ notToBringMealIds # {}
    /\ currentBringItems # {}

\* C14: at a step in which the publish call of a send rejects, an error
\* message is set, busy becomes false, no publish call is started in its place,
\* and the two sets and every persisted record stay as they are.
C14_RejectedSendChangesNothing ==
    [][ \A c \in inflight :
          sendRejected(c) =>
              /\ error' # NoError
              /\ ~busy'
              /\ inflight' = inflight \ {c}
              /\ inflight' = {}
              /\ notToBringMealIds' = notToBringMealIds
              /\ notToBringIngredientIds' = notToBringIngredientIds
              /\ storage' = storage ]_vars

\* C14 witness: a send has just been rejected on a week that has both excluded
\* and included ingredients.
C14_Witness ==
    /\ last = "sendRejected"
    /\ error = ErrPublish
    /\ ~busy
    /\ inflight = {}
    /\ notToBringIngredientIds # {}
    /\ currentBringItems # {}

\* C15: every run of the load effect (mount, week change) ends with
\* bringPreferencesLoaded true and raises no error.  A missing item and a value
\* that does not parse give two empty sets; a record gives, for each set, the
\* strings of its notToBring array, or of its discarded array when the
\* notToBring field is no array, or the empty set when neither is an array.
C15_LoadNeverFails ==
    [][ (MountEffects \/ nextWeek \/ prevWeek) =>
          LET raw == storage[bringPreferenceStorageKey(startDate')]
              strings(field) == field.items \ {NotAString}
          IN  /\ bringPreferencesLoaded'
              /\ error' = error
              /\ NotAString \notin notToBringMealIds' \cup notToBringIngredientIds'
              /\ raw.kind \in {"null", "garbage"} =>
                     (notToBringMealIds' = {} /\ notToBringIngredientIds' = {})
              /\ raw.kind = "json" =>
                     /\ notToBringMealIds' =
                           IF raw.notToBringMealIds.isArray
                           THEN strings(raw.notToBringMealIds)
                           ELSE IF raw.discardedMealIds.isArray
                                THEN strings(raw.discardedMealIds)
                                ELSE {}
                     /\ notToBringIngredientIds' =
                           IF raw.notToBringIngredientIds.isArray
                           THEN strings(raw.notToBringIngredientIds)
                           ELSE IF raw.discardedIngredientIds.isArray
                                THEN strings(raw.discardedIngredientIds)
                                ELSE {} ]_vars

\* C15 witness: a load has kept the strings of one array and found no usable
\* array for the other set.
C15_Witness ==
    /\ last \in {"mount", "nextWeek"}
    /\ bringPreferencesLoaded
    /\ notToBringMealIds = {RawLegacyMealId}
    /\ notToBringIngredientIds = {getMealIngredientId(RawMealId, 2)}

\* C16 (as claimed): no mealPlan document references a recipe whose
\* deleteRecipe has completed, whatever upserts ran alongside it.
C16_NoEntryOfDeletedRecipe ==
    \A d \in fsMealPlan : d.recipeId \in fsRecipes

\* C17 (as claimed): no two mealPlan documents share a (date, mealType) slot.
C17_OneEntryPerSlot ==
    \A d1, d2 \in fsMealPlan :
        (d1.date = d2.date /\ d1.mealType = d2.mealType) => d1 = d2

C19_WindowIsTheCalendarWeek ==
    mounted =>
        \A e \in mealPlan :
            e.recipeId \in DOMAIN recipes =>
                ((\E g \in currentGroups : g.id = getMealGroupId(e))
                     <=> e.date \in startDate..(startDate + 6))

\* The entries whose recipeId matches no recipe of the catalog.
C20_Dangling == { e \in mealPlan : e.recipeId \notin DOMAIN recipes }

\* C20: in every render of the list, an entry whose recipe is not in the
\* catalog has no meal group and no meal ingredient, the groups are those of
\* the plan without such entries, and rendering them sets no error.
C20_DanglingEntrySkipped ==
    mounted =>
        /\ \A e \in C20_Dangling :
              /\ \A g \in currentGroups : g.id # getMealGroupId(e)
              /\ \A g \in currentGroups : \A i \in g.ingredients :
                    << i[1], i[2], i[3] >> # getMealGroupId(e)
        /\ currentGroups = mealGroups(mealPlan \ C20_Dangling, recipes, startDate)
        /\ last = "mount" => error = NoError

\* C20 witness: the list shows the week of an entry whose recipe is missing,
\* next to a meal with ingredients.
C20_Witness ==
    /\ mounted
    /\ \E e \in C20_Dangling : e.date \in startDate..(startDate + 6)
    /\ \E g \in currentGroups : g.ingredients # {}
    /\ last = "mount"

\* r is what the count rule makes of a: the integer within 0.15 of a, or, when
\* there is none, a multiple of 0.5 within 0.25 of a.
C25_Integers == { Num(k, 1) : k \in (0 - 3)..(MaxTwentieths \div 20 + 1) }
C25_Halves == { Num(k, 2) : k \in (0 - 6)..(MaxTwentieths \div 10 + 2) }
C25_Within(a, b, bound) ==
    /\ lessOrEqual(minus(a, b), bound)
    /\ lessOrEqual(minus(b, a), bound)
C25_CountRule(a, r) ==
    IF \E k \in C25_Integers : C25_Within(a, k, Num(15, 100))
    THEN r \in C25_Integers /\ C25_Within(a, r, Num(15, 100))
    ELSE r \in C25_Halves /\ C25_Within(a, r, Num(1, 4))

\* C25: for a unit of category count and a finite amount, the rounded amount
\* is the integer within 0.15 of the amount, otherwise a nearest multiple of
\* 0.5; a positive amount that this would round below 1 gives 1, so that a
\* positive amount always gives at least 1.
C25_CountRounding ==
    (quantity.called /\ classifyUnit(quantity.unit) = "count"
        /\ isFinite(quantity.amount)
        /\ lessOrEqual(quantity.amount, Num(MaxTwentieths, 20))) =>
        LET a == quantity.amount
            r == quantity.roundedAmount
        IN  /\ isFinite(r)
            /\ less(Num(0, 1), a) => lessOrEqual(Num(1, 1), r)
            /\ \/ C25_CountRule(a, r)
               \/ /\ less(Num(0, 1), a)
                  /\ r = Num(1, 1)
                  /\ \A x \in C25_Integers \cup C25_Halves :
                        C25_CountRule(a, x) => less(x, Num(1, 1))
            /\ a = Num(2, 10) => r = Num(1, 1)
            /\ a = Num(23, 10) => r = Num(5, 2)

\* C25 witness: 2.3 pieces were rounded to 2.5.
C25_Witness ==
    /\ quantity.called
    /\ classifyUnit(quantity.unit) = "count"
    /\ quantity.amount = Num(23, 10)
    /\ quantity.roundedAmount = Num(5, 2)

\* C26: for a weight unit the rounded amount in grams is a multiple of 5 at
\* most 2.5 from the amount in grams, for a volume unit the rounded amount in
\* millilitres is a multiple of 10 at most 5 from the amount; an amount that
\* is not finite gives 0, and every call returns a finite number.
C26_BaseFactor(unit) ==
    IF normalizeUnit(unit) \in {"kg", "kilo", "l", "liter"} THEN 1000 ELSE 1
C26_Step(unit) == IF classifyUnit(unit) = "weight" THEN 5 ELSE 10
C26_WeightVolumeRounding ==
    quantity.called =>
        LET a == quantity.amount
            r == quantity.roundedAmount
            f == C26_BaseFactor(quantity.unit)
            step == C26_Step(quantity.unit)
        IN  /\ isFinite(r)
            /\ ~isFinite(a) => r = Num(0, 1)
            /\ (isFinite(a) /\ classifyUnit(quantity.unit) \in {"weight", "volume"}) =>
                  LET rBase == Num(r.n * f, r.d)
                      aBase == Num(a.n * f, a.d)
                  IN  /\ rBase.d = 1
                      /\ rBase.n % step = 0
                      /\ C25_Within(aBase, rBase, Num(step, 2))
            /\ (a = Num(333, 1) /\ quantity.unit = "g") => r = Num(335, 1)

\* C26 witness: 0.333 kg were rounded to 0.335 kg.
C26_Witness ==
    /\ quantity.called
    /\ quantity.unit = "kg"
    /\ quantity.amount = Num(333, 1000)
    /\ quantity.roundedAmount = Num(335, 1000)

\* The sum of a sequence of numbers.
RECURSIVE C21_Sum(_)
C21_Sum(amounts) ==
    IF amounts = << >> THEN Num(0, 1)
    ELSE plus(C21_Sum(Tail(amounts)), Head(amounts))

\* amount x servings / baseServings, an amount that is not a finite number
\* above 0 counting as 1.
C21_Scaled(amount, servings, baseServings) ==
    LET a == IF isFinite(amount) /\ amount.n > 0 THEN amount ELSE Num(1, 1)
    IN  Num(a.n * servings.n * baseServings.d, a.d * servings.d * baseServings.n)

\* The amount of ingredient x of group g when a stored baseServings of 0 or less
\* counts as 1.
C21_Expected(g, x) ==
    LET recipe == recipeById(documents.recipes, g.recipeId)
        base == IF isFinite(recipe.baseServings) /\ recipe.baseServings.n <= 0
                THEN Num(1, 1) ELSE recipe.baseServings
        parts == SelectSeq(recipe.ingredients,
                     LAMBDA p : getNormalizedIngredientKey(p) = x.normalizedKey)
    IN  C21_Sum([k \in 1..Len(parts) |-> C21_Scaled(parts[k].amount, g.servings, base)])

\* C21: in every rendered list, the amount of each meal ingredient is the sum
\* over the recipe's ingredients of that key of amount x servings /
\* baseServings, where an amount of 0 or less or not finite counts as 1 and a
\* baseServings of 0 or less counts as 1; it is a finite number above 0.
C21_ScaledAmounts ==
    view.rendered =>
        \A i \in 1..Len(view.groups) :
            \A j \in 1..Len(view.groups[i].ingredients) :
                LET g == view.groups[i]
                    x == g.ingredients[j]
                    recipe == recipeById(documents.recipes, g.recipeId)
                IN  /\ isFinite(x.amount) /\ x.amount.n > 0
                    /\ (isFinite(recipe.baseServings) /\ isFinite(g.servings)) =>
                          x.amount = C21_Expected(g, x)

\* Name and unit of an ingredient, trimmed and lower-cased.
C22_Key(p) == << toLowerCaseTrim(p.name), toLowerCaseTrim(p.unit) >>

\* C22: in every rendered list and every meal group, no two meal ingredients
\* have the same trimmed, lower-cased name and unit; the group has a meal
\* ingredient for exactly the keys of the recipe's ingredients; and the amount
\* of each is the sum of the scaled amounts of the recipe's ingredients of
\* that key.
C22_MergedByKey ==
    view.rendered =>
        \A i \in 1..Len(view.groups) :
            LET g == view.groups[i]
                recipe == normalizeRecipe(recipeById(documents.recipes, g.recipeId))
            IN  /\ \A j, k \in 1..Len(g.ingredients) :
                      C22_Key(g.ingredients[j]) = C22_Key(g.ingredients[k]) => j = k
                /\ { C22_Key(g.ingredients[j]) : j \in 1..Len(g.ingredients) }
                      = { C22_Key(recipe.ingredients[j]) :
                            j \in 1..Len(recipe.ingredients) }
                /\ (isFinite(recipe.baseServings) /\ isFinite(g.servings)) =>
                      \A j \in 1..Len(g.ingredients) :
                          LET parts == SelectSeq(recipe.ingredients,
                                  LAMBDA p : C22_Key(p) = C22_Key(g.ingredients[j]))
                          IN  g.ingredients[j].amount =
                                  C21_Sum([k \in 1..Len(parts) |->
                                      C21_Scaled(parts[k].amount, g.servings,
                                                 recipe.baseServings)])

\* C22 witness: a rendered group made one meal ingredient of "Ui" and " ui" in
\* pieces, with the sum of both amounts for 4 servings of a recipe for 2.
C22_Witness ==
    /\ view.rendered
    /\ \E i \in 1..Len(view.groups) :
          LET g == view.groups[i]
              recipe == recipeById(documents.recipes, g.recipeId)
          IN  /\ recipe.ingredients = << Ingredient("Ui", "stuk", Num(1, 1)),
                                         Ingredient(" ui", "stuk", Num(0, 1)) >>
              /\ recipe.baseServings = Num(2, 1)
              /\ g.servings = Num(4, 1)
              /\ Len(g.ingredients) = 1
              /\ g.ingredients[1].amount = Num(4, 1)

\* C23: in every rendered list no two meal groups have the same id, no two
\* meal ingredients have the same id, and there is a group for every (date,
\* mealType, recipeId) of an entry of the week whose recipe is in the catalog.
C23_OneGroupPerTriple ==
    view.rendered =>
        /\ \A i, j \in 1..Len(view.groups) :
              view.groups[i].id = view.groups[j].id => i = j
        /\ \A i, j \in 1..Len(allIngredients(view.groups)) :
              allIngredients(view.groups)[i].id = allIngredients(view.groups)[j].id
                  => i = j
        /\ { view.groups[i].id : i \in 1..Len(view.groups) }
              = { getMealGroupId(documents.mealPlan[k]) :
                    k \in { n \in 1..Len(documents.mealPlan) :
                              /\ documents.mealPlan[n].date \in startDate..(startDate + 6)
                              /\ \E r \in 1..Len(documents.recipes) :
                                    documents.recipes[r].id
                                        = documents.mealPlan[n].recipeId } }

\* The included meal ingredients of the rendered list.
C24_Included ==
    SelectSeq(allIngredients(view.groups),
              LAMBDA x : x.groupId \notin notToBringMealIds
                         /\ x.id \notin notToBringIngredientIds)

\* C24: the payload of a send has exactly one item per trimmed, lower-cased
\* name and unit occurring among the included meal ingredients of the rendered
\* groups; the amount of each item is toHumanQuantity's rounding of the sum of
\* the included amounts of that key; servings is 1 and sourceWeekStart the
\* displayed week's start.
C24_PayloadIsFlatSum ==
    (view.rendered /\ view.sent) =>
        LET items == view.payload.items
        IN  /\ \A i, j \in 1..Len(items) : C22_Key(items[i]) = C22_Key(items[j]) => i = j
            /\ { C22_Key(items[i]) : i \in 1..Len(items) }
                  = { C22_Key(C24_Included[i]) : i \in 1..Len(C24_Included) }
            /\ \A i \in 1..Len(items) :
                  LET parts == SelectSeq(C24_Included,
                                   LAMBDA x : C22_Key(x) = C22_Key(items[i]))
                  IN  items[i].amount =
                          toHumanQuantity(
                              C21_Sum([k \in 1..Len(parts) |-> parts[k].amount]),
                              items[i].unit)
            /\ view.payload.servings = 1
            /\ view.payload.sourceWeekStart = startDate

\* C24 witness: a payload whose one item sums the milk of two meals.
C24_Witness ==
    /\ view.rendered
    /\ view.sent
    /\ Len(view.groups) >= 2
    /\ \E i \in 1..Len(view.payload.items) :
          /\ C22_Key(view.payload.items[i]) = << "melk", "ml" >>
          /\ Cardinality({ k \in 1..Len(C24_Included) :
                             C22_Key(C24_Included[k]) = << "melk", "ml" >> }) >= 2
          /\ view.payload.items[i].amount = Num(300, 1)

\* C29: every item of a payload built by a send has a finite amount above 0.
C29_PayloadAmountsPositive ==
    (view.rendered /\ view.sent) =>
        \A i \in 1..Len(view.payload.items) :
            /\ isFinite(view.payload.items[i].amount)
            /\ view.payload.items[i].amount.n > 0

\* C27: a toggleIngredient step turns the effective exclusion (the meal id is
\* in notToBringMealIds or the ingredient id in notToBringIngredientIds) of the
\* toggled ingredient into its opposite and leaves the effective exclusion of
\* every other ingredient of the displayed week as it was.
C27_ToggleIngredientFlipsEffective ==
    [][ \A g \in currentGroups : \A i \in g.ingredients :
          toggleIngredientBringInclusion(g, i) =>
              /\ ingredientNotToBring(notToBringMealIds', notToBringIngredientIds', g, i)
                    <=> ~ingredientNotToBring(notToBringMealIds, notToBringIngredientIds, g, i)
              /\ \A h \in currentGroups : \A j \in h.ingredients :
                    j # i =>
                        (ingredientNotToBring(notToBringMealIds',
                                              notToBringIngredientIds', h, j)
                            <=> ingredientNotToBring(notToBringMealIds,
                                                     notToBringIngredientIds, h, j)) ]_vars

\* C28: after every step of the mounted list page the in-memory exclusion sets
\* are those built for the displayed week's key, and a step that changes the
\* record under a key either removes it or writes the sets built for that key.
C28_SetsStayWithTheirWeek ==
    [][ /\ mounted' => setsKey' = currentKey'
        /\ \A k \in StorageKeys :
              (storage'[k] # storage[k] /\ storage'[k] # NullItem) =>
                  /\ setsKey' = k
                  /\ storage'[k] = storagePayload(notToBringMealIds',
                                                  notToBringIngredientIds') ]_vars

\* The provider's copy is the active household's data as its source holds it.
C30_Reflected ==
    household # NoHousehold =>
        /\ recipes = collections[collectionOf(household)].recipes
        /\ mealPlan = collections[collectionOf(household)].mealPlan

\* C30: in both storage modes, once addRecipe, updateRecipe, deleteRecipe,
\* markAsCooked, addToMealPlan or removeFromMealPlan has resolved, the
\* provider's recipes and mealPlan eventually reflect the change with no
\* household change or reload (while the household stays the one the mutation
\* was made in, the copy comes to equal the source's data); and every snapshot
\* that is applied is one of the household that is active when it is delivered.
C30_MutationsEventuallyReflected ==
    /\ \A h \in Households :
          [](last \in Mutations /\ household = h
                => <>(C30_Reflected \/ household # h))
    /\ [][last' = "applySnapshot" => applied' = household]_vars

====
